---- MODULE Spec2Model ----
(***************************************************************************)
(* A model of the go-kit string service (src/main.go): the service logic   *)
(* (Uppercase, Count), the endpoint adapters, the JSON decoders and        *)
(* encoder, and the per-request pipeline of the two HTTP handlers that     *)
(* main() registers.                                                       *)
(*                                                                         *)
(* A Go string is a sequence of bytes; a byte is a number in 0..255.       *)
(* strings.ToUpper, len, and encoding/json work on those bytes and are     *)
(* modelled by what they do to them (UTF-8 decoding, the simple upper case *)
(* mapping, re-encoding, the replacement of invalid bytes by U+FFFD).      *)
(***************************************************************************)
EXTENDS Integers, Sequences, FiniteSets, TLC

\* Longest input (in characters) given to the service functions.
MaxLen == 3
\* Number of requests served concurrently.
NumReqs == 2

VARIABLES
    \* ---- the service functions called directly ----
    fnIn,      \* the input as a sequence of characters
    fnS,       \* the same input as the Go string (bytes) passed to the call
    fnPc,      \* which call has been made
    fnOut,     \* what the call returned
    fnOut2,    \* what Uppercase returned when applied to fnOut.v
    \* ---- the HTTP server ----
    proc,      \* "starting", "serving" or "exited"
    route,     \* per request: the route it was posted to
    body,      \* per request: the request body
    state,     \* per request: its place in the transport pipeline
    hist,      \* per request: the places it went through, in order
    decoded,   \* per request: the value its decoder returned
    invoked,   \* per request: the adapter called and the value given to it
    resp,      \* per request: what the adapter returned
    reply,     \* per request: what was written to the client
    canceled   \* per request: its context has been canceled

fnVars == <<fnIn, fnS, fnPc, fnOut, fnOut2>>
srvVars == <<proc, route, body, state, hist, decoded, invoked, resp, reply, canceled>>
vars == <<fnIn, fnS, fnPc, fnOut, fnOut2,
          proc, route, body, state, hist, decoded, invoked, resp, reply, canceled>>

----------------------------------------------------------------------------
(* Strings: UTF-8 *)

\* utf8.RuneError, U+FFFD
RuneError == 65533
\* utf8.RuneSelf: bytes below it are single-byte characters
RuneSelf == 128

\* The characters inputs are made of: 'a', 'A', ',', U+00E9 (e acute, two bytes
\* C3 A9), U+00C9 (E acute, C3 89); and the byte FF, which is valid nowhere in
\* UTF-8.
Runes == {97, 65, 44, 233, 201}
InvalidBytes == {255}
Chars == [k : {"rune"}, c : Runes] \cup [k : {"byte"}, c : InvalidBytes]

\* utf8.EncodeRune, for code points up to U+FFFF
EncodeRune(r) ==
    IF r < RuneSelf THEN <<r>>
    ELSE IF r < 2048 THEN <<192 + (r \div 64), 128 + (r % 64)>>
    ELSE <<224 + (r \div 4096), 128 + ((r \div 64) % 64), 128 + (r % 64)>>

\* The bytes of one input character
CharBytes(ch) == IF ch.k = "rune" THEN EncodeRune(ch.c) ELSE <<ch.c>>

RECURSIVE Text(_)
\* The Go string a sequence of characters is
Text(cs) == IF cs = <<>> THEN <<>> ELSE CharBytes(Head(cs)) \o Text(Tail(cs))

IsCont(b) == b >= 128 /\ b <= 191

\* utf8.DecodeRuneInString(s[i:]): <<rune, width>>. One to three byte
\* encodings; a byte that starts no valid encoding decodes to RuneError, width 1.
\* (Lead bytes F0..F4 of four-byte encodings are outside the modelled alphabet.)
DecodeRune(s, i) ==
    LET b == s[i]
        n == Len(s)
    IN  IF b < RuneSelf THEN <<b, 1>>
        ELSE IF /\ b >= 194 /\ b <= 223
                /\ i + 1 <= n /\ IsCont(s[i + 1])
             THEN <<(b - 192) * 64 + (s[i + 1] - 128), 2>>
        ELSE IF /\ b >= 224 /\ b <= 239
                /\ i + 2 <= n /\ IsCont(s[i + 1]) /\ IsCont(s[i + 2])
                /\ (b = 224 => s[i + 1] >= 160)
                /\ (b = 237 => s[i + 1] <= 159)
             THEN <<(b - 224) * 4096 + (s[i + 1] - 128) * 64 + (s[i + 2] - 128), 3>>
        ELSE <<RuneError, 1>>

\* unicode.ToUpper on U+0000..U+00FF; the code points above that the model
\* reaches (U+0178, U+039C, U+FFFD) have no upper case of their own.
UnicodeToUpper(r) ==
    IF r >= 97 /\ r <= 122 THEN r - 32
    ELSE IF r = 181 THEN 924
    ELSE IF r >= 224 /\ r <= 254 /\ r # 247 THEN r - 32
    ELSE IF r = 255 THEN 376
    ELSE r

IsASCII(s) == \A i \in 1..Len(s) : s[i] < RuneSelf

RECURSIVE MapToUpperFrom(_, _)
\* strings.Map(unicode.ToUpper, s) from byte i on: each decoded rune is mapped
\* and re-encoded, so an invalid byte comes out as the encoding of U+FFFD.
MapToUpperFrom(s, i) ==
    IF i > Len(s) THEN <<>>
    ELSE LET d == DecodeRune(s, i)
         IN  EncodeRune(UnicodeToUpper(d[1])) \o MapToUpperFrom(s, i + d[2])

\* A faulty variant of ToUpper: only ASCII letters are converted, byte by byte.
ToUpperASCIIOnly(s) ==
    IF s = <<>> THEN <<>>
    ELSE [i \in 1..Len(s) |-> IF s[i] >= 97 /\ s[i] <= 122 THEN s[i] - 32 ELSE s[i]]

\* strings.ToUpper
ToUpper(s) ==
    IF s = <<>> THEN <<>>
    ELSE IF IsASCII(s)
         THEN [i \in 1..Len(s) |-> IF s[i] >= 97 /\ s[i] <= 122 THEN s[i] - 32 ELSE s[i]]
         ELSE MapToUpperFrom(s, 1)

RECURSIVE ValidFrom(_, _)
\* The string with every invalid byte replaced by U+FFFD, as encoding/json
\* does to a string it reads or writes.
ValidFrom(s, i) ==
    IF i > Len(s) THEN <<>>
    ELSE LET d == DecodeRune(s, i)
         IN  EncodeRune(d[1]) \o ValidFrom(s, i + d[2])

ToValidUTF8(s) == ValidFrom(s, 1)

RECURSIVE RuneCountFrom(_, _)
RuneCountFrom(s, i) ==
    IF i > Len(s) THEN 0 ELSE 1 + RuneCountFrom(s, i + DecodeRune(s, i)[2])

----------------------------------------------------------------------------
(* Business logic *)

\* A nil error
NilError == <<>>
\* var ErrEmpty = errors.New("empty string")
ErrEmpty == <<"empty string">>
\* err.Error()
ErrorString(e) == e[1]

\* A faulty variant of Uppercase: the case of every ASCII letter is flipped.
UppercaseSwapCase(s) ==
    IF s = <<>> THEN [v |-> <<>>, err |-> ErrEmpty]
    ELSE [v |-> [i \in 1..Len(s) |->
                    IF s[i] >= 97 /\ s[i] <= 122 THEN s[i] - 32
                    ELSE IF s[i] >= 65 /\ s[i] <= 90 THEN s[i] + 32
                    ELSE s[i]],
          err |-> NilError]

\* func (stringService) Uppercase(s string) (string, error)
Uppercase(s) ==
    IF s = <<>> THEN [v |-> <<>>, err |-> ErrEmpty]
    ELSE [v |-> ToUpper(s), err |-> NilError]

\* A faulty variant of Count: characters are counted, not bytes.
CountRunes(s) == RuneCountFrom(s, 1)

\* func (stringService) Count(s string) int
Count(s) == Len(s)

----------------------------------------------------------------------------
(* Requests, responses and endpoints *)

\* A nil interface{} value
NilValue == [type |-> "nil"]

\* uppercaseRequest{S: s}
UppercaseRequest(s) == [type |-> "uppercaseRequest", S |-> s]
\* countRequest{S: s}
CountRequest(s) == [type |-> "countRequest", S |-> s]
\* uppercaseResponse{v, e}
UppercaseResponse(v, e) == [type |-> "uppercaseResponse", V |-> v, Err |-> e]
\* countResponse{n}
CountResponse(n) == [type |-> "countResponse", V |-> n]

\* What an endpoint call comes to: it returns (response, err), or it panics
\* at its type assertion.
Returned(response, err) == [panic |-> FALSE, response |-> response, err |-> err]
Panicked == [panic |-> TRUE, response |-> NilValue, err |-> NilError]

\* A faulty variant of the uppercase endpoint: a business error is returned as the
\* endpoint's error.
uppercaseEndpointPropagates(request) ==
    IF request.type # "uppercaseRequest" THEN Panicked
    ELSE LET r == Uppercase(request.S)
         IN  IF r.err # NilError
             THEN Returned(NilValue, r.err)
             ELSE Returned(UppercaseResponse(r.v, ""), NilError)

\* The endpoint makeUppercaseEndpoint(svc) returns
uppercaseEndpoint(request) ==
    IF request.type # "uppercaseRequest" THEN Panicked
    ELSE LET r == Uppercase(request.S)
         IN  IF r.err # NilError
             THEN Returned(UppercaseResponse(r.v, ErrorString(r.err)), NilError)
             ELSE Returned(UppercaseResponse(r.v, ""), NilError)

\* The endpoint makeCountEndpoint(svc) returns
countEndpoint(request) ==
    IF request.type # "countRequest" THEN Panicked
    ELSE Returned(CountResponse(Count(request.S)), NilError)

----------------------------------------------------------------------------
(* JSON *)

\* The request bodies posted. "object" is {"s":"<str>"}; "objectThenGarbage"
\* is that object followed by bytes that are no JSON; "noField" is {};
\* "null" is null; "wrongType" is {"s":1}; "syntax" is text that is no JSON
\* value, such as {"s": ; "empty" is no bytes at all.
SampleStrs == {<<>>, <<97, 44>>, <<195, 169>>, <<255>>}
Bodies ==
    [kind : {"object"}, str : SampleStrs]
    \cup [kind : {"objectThenGarbage"}, str : {<<97>>}]
    \cup [kind : {"noField", "null", "wrongType", "syntax", "empty"}, str : {<<>>}]

\* json.NewDecoder(r.Body).Decode(&request), request a zero struct with the
\* one field S `json:"s"`: the decoder reads the first JSON value of the body
\* and no further; a string's invalid bytes are read as U+FFFD; a missing
\* field, and null, leave S as it was ("").
JSONDecode(b) ==
    IF b.kind \in {"object", "objectThenGarbage"}
    THEN [S |-> ToValidUTF8(b.str), err |-> NilError]
    ELSE IF b.kind \in {"noField", "null"}
    THEN [S |-> <<>>, err |-> NilError]
    ELSE IF b.kind = "wrongType"
    THEN [S |-> <<>>, err |-> <<"json: cannot unmarshal number into Go struct field of type string">>]
    ELSE IF b.kind = "syntax"
    THEN [S |-> <<>>, err |-> <<"unexpected EOF">>]
    ELSE [S |-> <<>>, err |-> <<"EOF">>]

\* func decodeUppercaseRequest
decodeUppercaseRequest(b) ==
    LET d == JSONDecode(b)
    IN  IF d.err # NilError
        THEN [request |-> NilValue, err |-> d.err]
        ELSE [request |-> UppercaseRequest(d.S), err |-> NilError]

\* A faulty variant of decodeCountRequest: it fills an uppercaseRequest.
decodeCountRequestWrongType(b) ==
    LET d == JSONDecode(b)
    IN  IF d.err # NilError
        THEN [request |-> NilValue, err |-> d.err]
        ELSE [request |-> UppercaseRequest(d.S), err |-> NilError]

\* func decodeCountRequest
decodeCountRequest(b) ==
    LET d == JSONDecode(b)
    IN  IF d.err # NilError
        THEN [request |-> NilValue, err |-> d.err]
        ELSE [request |-> CountRequest(d.S), err |-> NilError]

\* A faulty variant of the response's JSON form: "err" is written even when empty.
MarshalResponseNoOmit(response) ==
    IF response.type = "uppercaseResponse"
    THEN [v |-> ToValidUTF8(response.V), err |-> response.Err]
    ELSE [v |-> response.V]

\* json.Marshal of a response value, by its struct tags: an uppercaseResponse
\* is {"v": V} with "err": Err added unless Err is empty (omitempty); a
\* countResponse is {"v": V}.
MarshalResponse(response) ==
    IF response.type = "uppercaseResponse"
    THEN IF response.Err = ""
         THEN [v |-> ToValidUTF8(response.V)]
         ELSE [v |-> ToValidUTF8(response.V), err |-> response.Err]
    ELSE [v |-> response.V]

\* What reaches the client. Nothing yet:
NoReply == [status |-> 0]
\* func encodeResponse: the JSON of the response is written; the first write
\* sends the status line, 200.
encodeResponse(response) == [status |-> 200, json |-> MarshalResponse(response)]
\* The transport's error encoder: status 500 and the error's text, no JSON.
ErrorReply(err) == [status |-> 500, text |-> ErrorString(err)]

----------------------------------------------------------------------------
(* The service functions and the endpoints, called directly *)

\* Every sequence of at most MaxLen characters
Inputs == UNION {[1..n -> Chars] : n \in 0..MaxLen}

NoCall == [op |-> "none"]

\* The server's variables while only the functions are exercised
Reqs == 1..NumReqs

ServerIdle ==
    /\ proc = "starting"
    /\ route = [r \in Reqs |-> "none"]
    /\ body = [r \in Reqs |-> [kind |-> "none", str |-> <<>>]]
    /\ state = [r \in Reqs |-> "Idle"]
    /\ hist = [r \in Reqs |-> <<>>]
    /\ decoded = [r \in Reqs |-> NilValue]
    /\ invoked = [r \in Reqs |-> [adapter |-> "none", request |-> NilValue]]
    /\ resp = [r \in Reqs |-> Returned(NilValue, NilError)]
    /\ reply = [r \in Reqs |-> NoReply]
    /\ canceled = [r \in Reqs |-> FALSE]

InitFn ==
    /\ fnIn \in Inputs
    /\ fnS = Text(fnIn)
    /\ fnPc = "start"
    /\ fnOut = NoCall
    /\ fnOut2 = NoCall
    /\ ServerIdle

\* svc.Uppercase(s)
CallUppercase ==
    /\ fnPc = "start"
    /\ fnPc' = "Uppercase"
    /\ fnOut' = Uppercase(fnS)
    /\ UNCHANGED <<fnIn, fnS, fnOut2>>
    /\ UNCHANGED srvVars

\* svc.Uppercase(v), v the string a successful svc.Uppercase(s) returned
CallUppercaseAgain ==
    /\ fnPc = "Uppercase"
    /\ fnOut.err = NilError
    /\ fnPc' = "UppercaseTwice"
    /\ fnOut2' = Uppercase(fnOut.v)
    /\ UNCHANGED <<fnIn, fnS, fnOut>>
    /\ UNCHANGED srvVars

\* svc.Count(s)
CallCount ==
    /\ fnPc = "start"
    /\ fnPc' = "Count"
    /\ fnOut' = [n |-> Count(fnS)]
    /\ UNCHANGED <<fnIn, fnS, fnOut2>>
    /\ UNCHANGED srvVars

\* makeUppercaseEndpoint(svc)(ctx, uppercaseRequest{s})
CallUppercaseEndpoint ==
    /\ fnPc = "start"
    /\ fnPc' = "UppercaseEndpoint"
    /\ fnOut' = uppercaseEndpoint(UppercaseRequest(fnS))
    /\ UNCHANGED <<fnIn, fnS, fnOut2>>
    /\ UNCHANGED srvVars

\* makeCountEndpoint(svc)(ctx, countRequest{s})
CallCountEndpoint ==
    /\ fnPc = "start"
    /\ fnPc' = "CountEndpoint"
    /\ fnOut' = countEndpoint(CountRequest(fnS))
    /\ UNCHANGED <<fnIn, fnS, fnOut2>>
    /\ UNCHANGED srvVars

NextFn ==
    \/ CallUppercase
    \/ CallUppercaseAgain
    \/ CallCount
    \/ CallUppercaseEndpoint
    \/ CallCountEndpoint

SpecFn == InitFn /\ [][NextFn]_vars

----------------------------------------------------------------------------
(* The HTTP server: main() *)

\* http.Handle("/uppercase", uppercaseHandler); http.Handle("/count", countHandler)
Routes == {"/uppercase", "/count"}

\* A faulty variant of main's wiring: the two endpoints are exchanged.
EndpointOfSwapped(rt) ==
    IF rt = "/uppercase" THEN "makeCountEndpoint" ELSE "makeUppercaseEndpoint"

\* The endpoint main() gives the handler of a route
EndpointOf(rt) ==
    IF rt = "/uppercase" THEN "makeUppercaseEndpoint" ELSE "makeCountEndpoint"

\* The decoder main() gives the handler of a route
DecoderOf(rt) ==
    IF rt = "/uppercase" THEN "decodeUppercaseRequest" ELSE "decodeCountRequest"

CallDecoder(name, b) ==
    IF name = "decodeUppercaseRequest" THEN decodeUppercaseRequest(b)
    ELSE decodeCountRequest(b)

CallEndpoint(name, request) ==
    IF name = "makeUppercaseEndpoint" THEN uppercaseEndpoint(request)
    ELSE countEndpoint(request)

\* A faulty variant of the handler: the decoded request is kept in one place that all
\* requests share.
SharedRequest(r) == decoded[1]

\* The value a request's handler passes from its decoder to its endpoint: a
\* local of the handler's own call.
RequestFor(r) == decoded[r]

\* How the write of the response can end: on a live connection it succeeds;
\* once the request's context is canceled (the client has gone) it may or may
\* not.
WriteOutcomes(r) == IF canceled[r] THEN {"ok", "fail"} ELSE {"ok"}

Init ==
    /\ fnIn = <<>>
    /\ fnS = <<>>
    /\ fnPc = "unused"
    /\ fnOut = NoCall
    /\ fnOut2 = NoCall
    /\ ServerIdle

\* http.ListenAndServe binds the socket and serves
BindOK ==
    /\ proc = "starting"
    /\ proc' = "serving"
    /\ UNCHANGED <<route, body, state, hist, decoded, invoked, resp, reply, canceled>>
    /\ UNCHANGED fnVars

\* http.ListenAndServe returns an error and log.Fatal ends the process
BindFail ==
    /\ proc = "starting"
    /\ proc' = "exited"
    /\ UNCHANGED <<route, body, state, hist, decoded, invoked, resp, reply, canceled>>
    /\ UNCHANGED fnVars

\* A request arrives on one of the two routes
Receive(r) ==
    /\ proc = "serving"
    /\ state[r] = "Idle"
    /\ \E rt \in Routes, b \in Bodies :
          /\ route' = [route EXCEPT ![r] = rt]
          /\ body' = [body EXCEPT ![r] = b]
    /\ state' = [state EXCEPT ![r] = "Received"]
    /\ hist' = [hist EXCEPT ![r] = <<"Received">>]
    /\ UNCHANGED <<proc, decoded, invoked, resp, reply, canceled>>
    /\ UNCHANGED fnVars

\* The route's handler starts on the request
BeginDecode(r) ==
    /\ proc = "serving"
    /\ state[r] = "Received"
    /\ state' = [state EXCEPT ![r] = "Decoding"]
    /\ hist' = [hist EXCEPT ![r] = Append(@, "Decoding")]
    /\ UNCHANGED <<proc, route, body, decoded, invoked, resp, reply, canceled>>
    /\ UNCHANGED fnVars

\* The handler calls its decoder; on an error the error encoder answers and
\* the handler returns
Decode(r) ==
    /\ proc = "serving"
    /\ state[r] = "Decoding"
    /\ LET d == CallDecoder(DecoderOf(route[r]), body[r])
       IN  IF d.err # NilError
           THEN /\ state' = [state EXCEPT ![r] = "Failed"]
                /\ hist' = [hist EXCEPT ![r] = Append(@, "Failed")]
                /\ reply' = [reply EXCEPT ![r] = ErrorReply(d.err)]
                /\ UNCHANGED decoded
           ELSE /\ state' = [state EXCEPT ![r] = "Invoking"]
                /\ hist' = [hist EXCEPT ![r] = Append(@, "Invoking")]
                /\ decoded' = [decoded EXCEPT ![r] = d.request]
                /\ UNCHANGED reply
    /\ UNCHANGED <<proc, route, body, invoked, resp, canceled>>
    /\ UNCHANGED fnVars

\* The handler calls its endpoint with the decoded request
Invoke(r) ==
    /\ proc = "serving"
    /\ state[r] = "Invoking"
    /\ LET name == EndpointOf(route[r])
           arg == RequestFor(r)
           res == CallEndpoint(name, arg)
       IN  /\ invoked' = [invoked EXCEPT ![r] = [adapter |-> name, request |-> arg]]
           /\ resp' = [resp EXCEPT ![r] = res]
           /\ IF res.panic
              THEN /\ state' = [state EXCEPT ![r] = "Panicked"]
                   /\ hist' = [hist EXCEPT ![r] = Append(@, "Panicked")]
                   /\ UNCHANGED reply
              ELSE IF res.err # NilError
              THEN /\ state' = [state EXCEPT ![r] = "Failed"]
                   /\ hist' = [hist EXCEPT ![r] = Append(@, "Failed")]
                   /\ reply' = [reply EXCEPT ![r] = ErrorReply(res.err)]
              ELSE /\ state' = [state EXCEPT ![r] = "Encoding"]
                   /\ hist' = [hist EXCEPT ![r] = Append(@, "Encoding")]
                   /\ UNCHANGED reply
    /\ UNCHANGED <<proc, route, body, decoded, canceled>>
    /\ UNCHANGED fnVars

\* The handler calls encodeResponse, whatever the request's context says
Encode(r) ==
    /\ proc = "serving"
    /\ state[r] = "Encoding"
    /\ \E w \in WriteOutcomes(r) :
          IF w = "ok"
          THEN /\ state' = [state EXCEPT ![r] = "Sent"]
               /\ hist' = [hist EXCEPT ![r] = Append(@, "Sent")]
               /\ reply' = [reply EXCEPT ![r] = encodeResponse(resp[r].response)]
          ELSE /\ state' = [state EXCEPT ![r] = "Failed"]
               /\ hist' = [hist EXCEPT ![r] = Append(@, "Failed")]
               /\ UNCHANGED reply
    /\ UNCHANGED <<proc, route, body, decoded, invoked, resp, canceled>>
    /\ UNCHANGED fnVars

\* The request's context is canceled while the request is in flight
Cancel(r) ==
    /\ proc = "serving"
    /\ state[r] \in {"Received", "Decoding", "Invoking", "Encoding"}
    /\ ~canceled[r]
    /\ canceled' = [canceled EXCEPT ![r] = TRUE]
    /\ UNCHANGED <<proc, route, body, state, hist, decoded, invoked, resp, reply>>
    /\ UNCHANGED fnVars

\* One step of a request's handler
Step(r) == BeginDecode(r) \/ Decode(r) \/ Invoke(r) \/ Encode(r)

Next ==
    \/ BindOK
    \/ BindFail
    \/ \E r \in Reqs : Receive(r)
    \/ \E r \in Reqs : BeginDecode(r)
    \/ \E r \in Reqs : Decode(r)
    \/ \E r \in Reqs : Invoke(r)
    \/ \E r \in Reqs : Encode(r)

NextCancel ==
    \/ Next
    \/ \E r \in Reqs : Cancel(r)

\* Requests whose contexts stay live
Spec == Init /\ [][Next]_vars

\* The same, every handler running to its end
FairSpec == Spec /\ \A r \in Reqs : WF_vars(Step(r))

\* Requests whose contexts may be canceled
SpecCancel == Init /\ [][NextCancel]_vars

----------------------------------------------------------------------------
(* What the claims speak of *)

\* The upper case of each modelled character, as Unicode gives it
UpperOfRune(c) == IF c = 97 THEN 65 ELSE IF c = 233 THEN 201 ELSE c

\* A text with every cased character in upper case and nothing else changed
UpperChars(cs) ==
    [i \in 1..Len(cs) |->
        IF cs[i].k = "rune" THEN [k |-> "rune", c |-> UpperOfRune(cs[i].c)] ELSE cs[i]]

\* The same, each byte that is no character replaced by U+FFFD
UpperCharsReplaced(cs) ==
    [i \in 1..Len(cs) |->
        IF cs[i].k = "rune" THEN [k |-> "rune", c |-> UpperOfRune(cs[i].c)]
        ELSE [k |-> "rune", c |-> 65533]]

IsValidText(cs) == \A i \in 1..Len(cs) : cs[i].k = "rune"

\* The number of encoded units (UTF-8 bytes) of one character
UnitsOf(ch) == IF ch.k = "byte" THEN 1 ELSE IF ch.c < 128 THEN 1 ELSE 2

RECURSIVE EncodedUnits(_)
EncodedUnits(cs) == IF cs = <<>> THEN 0 ELSE UnitsOf(Head(cs)) + EncodedUnits(Tail(cs))

IsPrefix(p, q) == Len(p) <= Len(q) /\ \A i \in 1..Len(p) : p[i] = q[i]

SuccessPath == <<"Received", "Decoding", "Invoking", "Encoding", "Sent">>
DecodeFailPath == <<"Received", "Decoding", "Failed">>

----------------------------------------------------------------------------
(* C1 *)

\* C1, as stated: for every non-empty s, Uppercase and the uppercase endpoint
\* return s with every cased character in upper case and every other
\* character unchanged, and no error.
C1_UppercaseAnyString ==
    fnIn # <<>> =>
        /\ fnPc = "Uppercase" =>
              fnOut = [v |-> Text(UpperChars(fnIn)), err |-> NilError]
        /\ fnPc = "UppercaseEndpoint" =>
              fnOut = Returned(UppercaseResponse(Text(UpperChars(fnIn)), ""), NilError)

\* C1, amended: for every non-empty s, Uppercase and the uppercase endpoint
\* return, with no error, s with every character replaced by its upper case
\* (characters that have none unchanged) and every byte that is not part of
\* a valid UTF-8 encoding replaced by U+FFFD; so for valid UTF-8 the result
\* is s with the cased characters in upper case and all else unchanged.
C1_UppercaseValidOrReplaced ==
    fnIn # <<>> =>
        /\ fnPc = "Uppercase" =>
              /\ fnOut = [v |-> Text(UpperCharsReplaced(fnIn)), err |-> NilError]
              /\ IsValidText(fnIn) => fnOut.v = Text(UpperChars(fnIn))
        /\ fnPc = "UppercaseEndpoint" =>
              /\ fnOut = Returned(UppercaseResponse(Text(UpperCharsReplaced(fnIn)), ""),
                                  NilError)
              /\ IsValidText(fnIn) => fnOut.response.V = Text(UpperChars(fnIn))

\* C1's case: "a,<e acute>" has come back from the endpoint as "A,<E acute>"
C1_Witness ==
    /\ fnPc = "UppercaseEndpoint"
    /\ fnS = <<97, 44, 195, 169>>
    /\ fnOut.response.V = <<65, 44, 195, 137>>
    /\ fnOut.response.Err = ""

----------------------------------------------------------------------------
(* C3 *)

\* C3: Count(s) is the number of encoded units of s, 0 for "" and never
\* negative; the count endpoint returns a countResponse holding it, with a
\* nil error and without failing.
C3_CountIsLength ==
    /\ fnPc = "Count" =>
          /\ fnOut.n = EncodedUnits(fnIn)
          /\ fnOut.n >= 0
          /\ (fnIn = <<>> => fnOut.n = 0)
    /\ fnPc = "CountEndpoint" =>
          fnOut = Returned(CountResponse(EncodedUnits(fnIn)), NilError)

\* C3's case: "<e acute>a" (three bytes, two characters) has been counted
C3_Witness ==
    /\ fnPc = "CountEndpoint"
    /\ fnS = <<195, 169, 97>>
    /\ fnOut.response.V = 3

----------------------------------------------------------------------------
(* C8 *)

\* C8: for every non-empty s, Uppercase(s) succeeds with a non-empty v, and
\* Uppercase(v) succeeds and returns v.
C8_UppercaseIdempotent ==
    fnIn # <<>> =>
        /\ fnPc \in {"Uppercase", "UppercaseTwice"} =>
              fnOut.err = NilError /\ fnOut.v # <<>>
        /\ fnPc = "UppercaseTwice" =>
              fnOut2 = [v |-> fnOut.v, err |-> NilError]

\* C8's case: Uppercase applied to "A<E acute>", the result for "a<e acute>"
C8_Witness ==
    /\ fnPc = "UppercaseTwice"
    /\ fnS = <<97, 195, 169>>
    /\ fnOut.v = <<65, 195, 137>>
    /\ fnOut2.v = <<65, 195, 137>>

----------------------------------------------------------------------------
(* C2 *)

\* A well-formed /uppercase request whose s is the empty string
EmptyUppercase(r) ==
    /\ route[r] = "/uppercase"
    /\ body[r] = [kind |-> "object", str |-> <<>>]

\* C2: a well-formed /uppercase request with s = "" never fails in the
\* transport: its endpoint returns uppercaseResponse{"", "empty string"} with
\* a nil error, and it goes on through Encoding to Sent, where the reply is
\* {"v":"","err":"empty string"} with status 200.
C2_EmptyIsData ==
    \A r \in Reqs :
        EmptyUppercase(r) =>
            /\ IsPrefix(hist[r], SuccessPath)
            /\ state[r] \in {"Encoding", "Sent"} =>
                  resp[r] = Returned(UppercaseResponse(<<>>, "empty string"), NilError)
            /\ state[r] = "Sent" =>
                  reply[r] = [status |-> 200, json |-> [v |-> <<>>, err |-> "empty string"]]

\* C2's case: such a request has been answered
C2_Witness ==
    \E r \in Reqs :
        /\ EmptyUppercase(r)
        /\ state[r] = "Sent"
        /\ hist[r] = SuccessPath
        /\ reply[r].json.err = "empty string"

----------------------------------------------------------------------------
(* C4 *)

\* A body that is not well-formed JSON (it ends early, is empty, or has
\* bytes after its one value that are no JSON), or is well-formed but has a
\* number where the shape has the string s. ({} and null are well-formed and
\* are not counted here.)
NotOfRequestShape(b) == b.kind \in {"objectThenGarbage", "wrongType", "syntax", "empty"}

\* C4, as stated: a request whose body is not well-formed JSON of the
\* route's shape goes Received, Decoding, Failed; no endpoint is called for
\* it, and the reply is the transport's error and no JSON response.
C4_MalformedFails ==
    \A r \in Reqs :
        (NotOfRequestShape(body[r]) /\ state[r] \notin {"Idle", "Received", "Decoding"}) =>
            /\ state[r] = "Failed"
            /\ hist[r] = DecodeFailPath
            /\ invoked[r].adapter = "none"
            /\ reply[r].status = 500
            /\ "json" \notin DOMAIN reply[r]

----------------------------------------------------------------------------
(* C5 *)

\* The endpoint and the decoder each route is bound to
BoundAdapter(rt) == IF rt = "/uppercase" THEN "makeUppercaseEndpoint" ELSE "makeCountEndpoint"
BoundDecoded(rt, b) ==
    IF rt = "/uppercase" THEN decodeUppercaseRequest(b).request
    ELSE decodeCountRequest(b).request

C5_Order ==
    \A r \in Reqs :
        /\ IsPrefix(hist[r], SuccessPath) \/ IsPrefix(hist[r], DecodeFailPath)
        /\ hist[r] # <<>> => state[r] = hist[r][Len(hist[r])]
        /\ state[r] \in {"Invoking", "Encoding", "Sent"} =>
              /\ IsPrefix(hist[r], SuccessPath)
              /\ decoded[r] = BoundDecoded(route[r], body[r])
        /\ state[r] \in {"Encoding", "Sent"} =>
              /\ invoked[r].adapter = BoundAdapter(route[r])
              /\ invoked[r].request = BoundDecoded(route[r], body[r])

\* A decoded request that is not yet Sent can take its handler's next step
C5_Progress ==
    \A r \in Reqs : state[r] \in {"Invoking", "Encoding"} => ENABLED Step(r)

\* C5: a request whose body decodes goes through Decoding, Invoking and
\* Encoding in that order, none skipped and none repeated, towards Sent, and
\* short of Sent its next step can always be taken (so a handler that runs
\* to its end reaches Sent); the endpoint called at Invoking is the one of
\* the request's route, and it is given the value that route's decoder
\* returned.
C5_DecodedRunsToSent == C5_Order /\ C5_Progress

\* The same end, as a property of behaviours in which every handler runs on:
\* a decoded request reaches Sent.
C5_EventuallySent == \A r \in Reqs : (state[r] = "Invoking") ~> (state[r] = "Sent")

\* C5's case: a /count request has gone the whole way
C5_Witness ==
    \E r \in Reqs :
        /\ route[r] = "/count"
        /\ hist[r] = SuccessPath
        /\ invoked[r] = [adapter |-> "makeCountEndpoint",
                         request |-> CountRequest(<<195, 169>>)]

----------------------------------------------------------------------------
(* C6 *)

\* The reply to a request served with no other request about
ReplyAlone(rt, b) ==
    LET d == IF rt = "/uppercase" THEN decodeUppercaseRequest(b) ELSE decodeCountRequest(b)
    IN  IF d.err # NilError THEN ErrorReply(d.err)
        ELSE IF rt = "/uppercase"
             THEN encodeResponse(uppercaseEndpoint(d.request).response)
             ELSE encodeResponse(countEndpoint(d.request).response)

\* All that the server holds for one request
Fields(r) ==
    <<route[r], body[r], state[r], hist[r], decoded[r], invoked[r], resp[r], reply[r],
      canceled[r]>>

C6_ReplyIsOwn ==
    \A r \in Reqs :
        /\ state[r] # "Panicked"
        /\ state[r] \in {"Sent", "Failed"} => reply[r] = ReplyAlone(route[r], body[r])

C6_StepIsOwn ==
    \A r \in Reqs, q \in Reqs :
        (r # q /\ Fields(r)' # Fields(r)) => Fields(q)' = Fields(q)

\* C6: however the requests interleave, a step of one request reads and
\* writes nothing of another, and the reply to each request is the one its
\* route and body get when served alone.
C6_RequestsIndependent == []C6_ReplyIsOwn /\ [][C6_StepIsOwn]_vars

\* C6's case: two requests in flight at once, the second answered while the
\* first, on the other route, is still being served
C6_Witness ==
    /\ state[1] = "Invoking"
    /\ route[1] = "/uppercase"
    /\ state[2] = "Sent"
    /\ route[2] = "/count"
    /\ body[2] = [kind |-> "object", str |-> <<97, 44>>]
    /\ reply[2] = [status |-> 200, json |-> [v |-> 2]]

----------------------------------------------------------------------------
(* C7 *)

\* C7, as stated: a request whose context is canceled before its Encoding
\* step completes never reaches Sent with a response written after the
\* cancellation.
C7_CanceledNeverSent ==
    \A r \in Reqs : ~(canceled[r] /\ state[r] = "Sent" /\ reply[r].status = 200)

----------------------------------------------------------------------------
(* C9 *)

\* C9: in every response of the uppercase endpoint err is non-empty exactly
\* when the request's s was empty, and then v is empty; the JSON reply always
\* has the key v, and has the key err exactly when err is non-empty.
C9_ErrIffEmpty ==
    \A r \in Reqs :
        (route[r] = "/uppercase" /\ state[r] \in {"Encoding", "Sent"}) =>
            LET R == resp[r].response
            IN  /\ R.type = "uppercaseResponse"
                /\ (R.Err # "") <=> (decoded[r].S = <<>>)
                /\ (R.Err # "") => (R.V = <<>>)
                /\ state[r] = "Sent" =>
                      /\ "v" \in DOMAIN reply[r].json
                      /\ ("err" \in DOMAIN reply[r].json) <=> (R.Err # "")
                      /\ reply[r].json.v = R.V
                      /\ (R.Err # "") => reply[r].json.err = R.Err

\* C9's case: a successful reply, which has v and no err key
C9_Witness ==
    \E r \in Reqs :
        /\ route[r] = "/uppercase"
        /\ state[r] = "Sent"
        /\ decoded[r].S = <<97, 44>>
        /\ reply[r].json = [v |-> <<65, 44>>]

----------------------------------------------------------------------------
(* C10 *)

\* The type each route's endpoint asserts its request to have
AssertedType(rt) == IF rt = "/uppercase" THEN "uppercaseRequest" ELSE "countRequest"

C10_AssertionsHold ==
    \A r \in Reqs :
        /\ state[r] # "Panicked"
        /\ state[r] \in {"Invoking", "Encoding", "Sent"} =>
              decoded[r].type = AssertedType(route[r])
        /\ state[r] \in {"Encoding", "Sent"} => ~resp[r].panic

C10_StaysUp == proc = "serving" => proc' = "serving"

\* C10: once the server is serving, no request ends the process; no type
\* assertion of an endpoint fails, since the value an endpoint gets is of the
\* type its route's decoder makes; the process exits only when the socket
\* cannot be bound at startup.
C10_NoRequestIsFatal == []C10_AssertionsHold /\ [][C10_StaysUp]_vars

\* C10's case: a malformed request and an empty-input request have both been
\* dealt with and the server is still serving
C10_Witness ==
    /\ proc = "serving"
    /\ state[1] = "Failed"
    /\ body[1].kind = "syntax"
    /\ state[2] = "Sent"
    /\ route[2] = "/count"
    /\ body[2].kind = "null"

====
